---- MODULE Spec2Model ----
(***************************************************************************)
(* Model of python-ldap-login/app.py: the Flask handler ldap_test, one     *)
(* diagnostic run per request.  Strings are sequences of one-character     *)
(* strings (multi-character tokens stand for fixed literals of the code).  *)
(* A log entry is the message's literal prefix, the interpolated value     *)
(* and the level; the wall-clock timestamp of DebugEntry is read by no     *)
(* branch of the handler and is left out.                                  *)
(***************************************************************************)
EXTENDS Integers, Sequences, FiniteSets, TLC

\* Longest username typed into the form.
MaxLen == 2

\* port = 389
DefaultPort == 389

\* use_ssl = port == 636
LdapsPort == 636

\* ------------------------------------------------------------------------
\* Strings
\* ------------------------------------------------------------------------

RECURSIVE StringsUpTo(_, _)
StringsUpTo(alphabet, n) ==
    IF n = 0 THEN {<<>>}
    ELSE LET shorter == StringsUpTo(alphabet, n - 1)
         IN  shorter \cup {Append(s, c) : s \in shorter, c \in alphabet}

RECURSIVE LStrip(_)
LStrip(s) == IF s # <<>> /\ Head(s) = " " THEN LStrip(Tail(s)) ELSE s

RECURSIVE RStrip(_)
RStrip(s) ==
    IF s # <<>> /\ s[Len(s)] = " " THEN RStrip(SubSeq(s, 1, Len(s) - 1)) ELSE s

\* str.strip()
Strip(s) == RStrip(LStrip(s))

\* x in s, for a one-character x
Contains(s, c) == \E i \in 1..Len(s) : s[i] = c

DigitValue ==
    [c \in {"0", "1", "2", "3", "4", "5", "6", "7", "8", "9"} |->
        CASE c = "0" -> 0 [] c = "1" -> 1 [] c = "2" -> 2 [] c = "3" -> 3
          [] c = "4" -> 4 [] c = "5" -> 5 [] c = "6" -> 6 [] c = "7" -> 7
          [] c = "8" -> 8 [] c = "9" -> 9]

DigitChar == <<"0", "1", "2", "3", "4", "5", "6", "7", "8", "9">>

\* int(s) succeeds (decimal digit strings; signs and underscores are not
\* among the inputs drawn below).
IsInt(s) == s # <<>> /\ \A i \in 1..Len(s) : s[i] \in DOMAIN DigitValue

RECURSIVE IntOf(_)
IntOf(s) ==
    IF s = <<>> THEN 0
    ELSE 10 * IntOf(SubSeq(s, 1, Len(s) - 1)) + DigitValue[s[Len(s)]]

\* f"{n}" for a natural number
RECURSIVE Str(_)
Str(n) == IF n < 10 THEN <<DigitChar[n + 1]>>
          ELSE Append(Str(n \div 10), DigitChar[(n % 10) + 1])

\* ------------------------------------------------------------------------
\* Inputs: the .env file and the submitted form
\* ------------------------------------------------------------------------

HostInputs == {<<>>, <<" ">>, <<"h">>, <<".", "h">>}
PortInputs == {<<>>, <<"3", "8", "9">>, <<"6", "3", "6">>,
               <<" ", "6", "3", "6">>, <<"6", "3", "6", "x">>}
CaInputs == {<<>>, <<"c">>}
DomainInputs == {<<>>, <<"d">>}
UsernameInputs == StringsUpTo({"a", "@", " "}, MaxLen)
PasswordInputs == {<<>>, <<"p">>}
Methods == {"GET", "POST"}

\* ------------------------------------------------------------------------
\* Exceptions
\* ------------------------------------------------------------------------

\* Base class of each exception class the calls of the handler can raise
\* (Python 3 builtins, socket, python-ldap).
Parent ==
    [c \in {"FileNotFoundError", "PermissionError", "IsADirectoryError",
            "gaierror", "timeout", "OSError", "UnicodeDecodeError",
            "UnicodeError", "ValueError", "INVALID_CREDENTIALS",
            "SERVER_DOWN", "CONNECT_ERROR", "TIMEOUT", "PROTOCOL_ERROR",
            "LDAPError"} |->
        CASE c \in {"FileNotFoundError", "PermissionError",
                    "IsADirectoryError", "gaierror", "timeout"} -> "OSError"
          [] c = "UnicodeDecodeError" -> "UnicodeError"
          [] c = "UnicodeError" -> "ValueError"
          [] c \in {"INVALID_CREDENTIALS", "SERVER_DOWN", "CONNECT_ERROR",
                    "TIMEOUT", "PROTOCOL_ERROR"} -> "LDAPError"
          [] OTHER -> "Exception"]

RECURSIVE IsSubclass(_, _)
IsSubclass(cls, base) ==
    \/ cls = base
    \/ cls \in DOMAIN Parent /\ IsSubclass(Parent[cls], base)

\* The except clause that catches an exception of class cls: the first of
\* the chain naming cls or a base of it; 0 when none does and it propagates.
FirstHandler(chain, cls) ==
    LET matching == {i \in 1..Len(chain) : IsSubclass(cls, chain[i])}
    IN  IF matching = {} THEN 0
        ELSE CHOOSE i \in matching : \A j \in matching : i <= j

\* certificate: str(exc) mentions a certificate; args: shape of exc.args[0]
Exc(cls, certificate, args) ==
    [cls |-> cls, certificate |-> certificate, args |-> args]

NoExc == Exc("None", FALSE, "none")

LdapFailures ==
    {Exc("SERVER_DOWN", b, "dict") : b \in BOOLEAN} \cup
    {Exc("CONNECT_ERROR", FALSE, "dict"), Exc("TIMEOUT", FALSE, "dict")} \cup
    {Exc("PROTOCOL_ERROR", FALSE, a) : a \in {"dict_info", "dict", "str"}}

\* ------------------------------------------------------------------------
\* State
\* ------------------------------------------------------------------------

VARIABLES pc, logs, method, host, port_raw, ca_cert_file, domain, port,
          username, password, login_username, use_ssl, ldap_uri,
          connection, option, exc, handled, calls, bind_args, response

vars == <<pc, logs, method, host, port_raw, ca_cert_file, domain, port,
          username, password, login_username, use_ssl, ldap_uri,
          connection, option, exc, handled, calls, bind_args, response>>

\* add_log
add_log(l, message, arg, level) ==
    Append(l, [message |-> message, arg |-> arg, level |-> level])

Init ==
    /\ pc = "start"
    /\ logs = <<>>
    /\ method = "GET"
    /\ host = <<>>
    /\ port_raw = <<>>
    /\ ca_cert_file = <<>>
    /\ domain = <<>>
    /\ port = DefaultPort
    /\ username = <<>>
    /\ password = <<>>
    /\ login_username = <<>>
    /\ use_ssl = FALSE
    /\ ldap_uri = <<>>
    /\ connection = "None"
    /\ option = 1
    /\ exc = NoExc
    /\ handled = FALSE
    /\ calls = <<>>
    /\ bind_args = <<>>
    /\ response = <<>>

\* ------------------------------------------------------------------------
\* Pure parts of the handler
\* ------------------------------------------------------------------------

\* port = 389; if port_raw: try port = int(port_raw) except ValueError
ParsePort(raw) == IF raw # <<>> /\ IsInt(raw) THEN IntOf(raw) ELSE DefaultPort

ConfigErrorHostOnly(h, user, pw) == IF h = <<>> THEN "host" ELSE "none"

\* if not host: ... elif not username or not password: ... else:
ConfigError(h, user, pw) ==
    IF h = <<>> THEN "host"
    ELSE IF user = <<>> \/ pw = <<>> THEN "credentials"
    ELSE "none"

\* x or 'N/A'
OrNA(s) == IF s # <<>> THEN s ELSE <<"N/A">>

LoginUsernameAlwaysAppend(user, dom) ==
    IF dom = <<>> THEN user ELSE user \o <<"@">> \o dom

\* username if user_provided_domain or not domain else f"{username}@{domain}"
LoginUsername(user, dom) ==
    IF Contains(user, "@") \/ dom = <<>> THEN user ELSE user \o <<"@">> \o dom

UseSslNever(p) == FALSE

\* port == 636
UseSsl(p) == p = LdapsPort

\* f"{protocol}://{host}:{port}"
LdapUri(ssl, h, p) ==
    <<IF ssl THEN "ldaps" ELSE "ldap", "://">> \o h \o <<":">> \o Str(p)

\* host.encode('idna') inside socket.getaddrinfo raises UnicodeError on an
\* empty label.
IdnaFails(h) ==
    \/ h # <<>> /\ Head(h) = "."
    \/ \E i \in 1..(Len(h) - 1) : h[i] = "." /\ h[i + 1] = "."

\* ------------------------------------------------------------------------
\* The handler, step by step
\* ------------------------------------------------------------------------

\* What the handler leaves alone outside the try block
NoSession == UNCHANGED <<ldap_uri, connection, option, handled, bind_args, response>>

Config == UNCHANGED <<host, port_raw, ca_cert_file, domain, port>>

Form == UNCHANGED <<method, username, password, login_username, use_ssl>>

\* Lines 171-192: the log is created, the .env file read, the port parsed
\* and the configuration echoed.
Start ==
    /\ pc = "start"
    /\ \E h \in HostInputs, p \in PortInputs, c \in CaInputs, d \in DomainInputs :
        LET praw == Strip(p)
            ca == Strip(c)
            l1 == add_log(logs, "LDAP Test Started", <<>>, "info")
            l2 == IF praw # <<>> /\ ~IsInt(praw)
                  THEN add_log(l1, "ERROR: Invalid LDAP port: ", praw, "error")
                  ELSE l1
            l3 == add_log(l2, "AD Config loaded - Host: ", OrNA(Strip(h)), "info")
            l4 == add_log(l3, "AD Config - Domain: ", OrNA(Strip(d)), "info")
            l5 == add_log(l4, "AD Config - Port: ",
                          IF praw # <<>> THEN Str(ParsePort(praw)) ELSE <<"N/A">>,
                          "info")
            l6 == IF ca # <<>>
                  THEN add_log(l5, "CA cert file configured: ", ca, "info")
                  ELSE l5
        IN  /\ host' = Strip(h)
            /\ port_raw' = praw
            /\ ca_cert_file' = ca
            /\ domain' = Strip(d)
            /\ port' = ParsePort(praw)
            /\ logs' = l6
    /\ pc' = "validate"
    /\ Form /\ NoSession
    /\ UNCHANGED <<exc, calls>>

\* Lines 194-210: a GET renders the page; a POST is validated, and a valid
\* one resolves the bind identity and the TLS mode.
Validate ==
    /\ pc = "validate"
    /\ \E m \in Methods :
        /\ method' = m
        /\ IF m # "POST"
           THEN /\ pc' = "render"
                /\ UNCHANGED <<logs, username, password, login_username, use_ssl>>
           ELSE \E u \in UsernameInputs, pw \in PasswordInputs :
                LET user == Strip(u)
                    l1 == add_log(logs, "Attempting to authenticate user: ", user, "info")
                    login == LoginUsername(user, domain)
                    ssl == UseSsl(port)
                IN  /\ username' = user
                    /\ password' = pw
                    /\ IF ConfigError(host, user, pw) = "host"
                       THEN /\ logs' = add_log(l1, "ERROR: LDAP host missing in .env", <<>>, "error")
                            /\ pc' = "render"
                            /\ UNCHANGED <<login_username, use_ssl>>
                       ELSE IF ConfigError(host, user, pw) = "credentials"
                       THEN /\ logs' = add_log(l1, "ERROR: Username or password missing", <<>>, "error")
                            /\ pc' = "render"
                            /\ UNCHANGED <<login_username, use_ssl>>
                       ELSE /\ login_username' = login
                            /\ use_ssl' = ssl
                            /\ logs' = add_log(
                                   add_log(l1, "Attempting authentication with: ", login, "info"),
                                   "SSL/TLS mode: ",
                                   <<IF ssl THEN "LDAPS (implicit SSL)"
                                            ELSE "LDAP (plain or STARTTLS)">>,
                                   "info")
                            /\ pc' = "ca"
    /\ Config /\ NoSession
    /\ UNCHANGED <<exc, calls>>

\* What reading the CA file can do: its content holds the PEM marker or not,
\* or open()/read() raises.
CaReads == {"pem", "other"}
CaFailures == {Exc(c, FALSE, "none") :
                 c \in {"FileNotFoundError", "PermissionError",
                        "IsADirectoryError", "UnicodeDecodeError"}}

\* except FileNotFoundError / except PermissionError
CaHandlers == <<"FileNotFoundError", "PermissionError">>

\* The two process-wide options and their entries, lines 227-235
GlobalOptions(l, withCa) ==
    LET l1 == IF withCa
              THEN add_log(l, "Set OPT_X_TLS_CACERTFILE: ", ca_cert_file, "info")
              ELSE add_log(l, "No CA certificate configured - using system certificates",
                           <<>>, "info")
    IN  add_log(l1, "Set OPT_X_TLS_REQUIRE_CERT: OPT_X_TLS_ALLOW (request cert, continue if invalid)",
                <<>>, "info")

GlobalCalls(withCa) ==
    IF withCa THEN <<"ldap.set_option", "ldap.set_option">> ELSE <<"ldap.set_option">>

\* Lines 213-235: the CA certificate check and the process-wide TLS options.
CaCheck ==
    /\ pc = "ca"
    /\ IF ca_cert_file = <<>>
       THEN /\ logs' = GlobalOptions(logs, FALSE)
            /\ calls' = calls \o GlobalCalls(FALSE)
            /\ pc' = "dns"
            /\ exc' = exc
       ELSE LET l1 == add_log(logs, "Loading CA certificate from: ", ca_cert_file, "info")
            IN  \/ \E content \in CaReads :
                    /\ logs' = GlobalOptions(
                           IF content = "pem"
                           THEN add_log(l1, "CA certificate file format: PEM (valid)", <<>>, "info")
                           ELSE add_log(l1, "WARNING: CA certificate may not be in PEM format",
                                        <<>>, "error"),
                           TRUE)
                    /\ calls' = calls \o <<"open">> \o GlobalCalls(TRUE)
                    /\ pc' = "dns"
                    /\ exc' = exc
                \/ \E e \in CaFailures :
                    LET h == FirstHandler(CaHandlers, e.cls)
                    IN  IF h = 0
                        THEN /\ logs' = l1
                             /\ calls' = Append(calls, "open")
                             /\ exc' = e
                             /\ pc' = "fault"
                        ELSE /\ logs' = GlobalOptions(
                                    add_log(l1,
                                            IF h = 1
                                            THEN "ERROR: CA certificate file not found: "
                                            ELSE "ERROR: Cannot read CA certificate file (permission denied): ",
                                            ca_cert_file, "error"),
                                    TRUE)
                             /\ calls' = calls \o <<"open">> \o GlobalCalls(TRUE)
                             /\ exc' = exc
                             /\ pc' = "dns"
    /\ Config /\ Form /\ NoSession

\* except socket.gaierror
DnsHandlers == <<"gaierror">>

\* Lines 237-244: DNS resolution.
Dns ==
    /\ pc = "dns"
    /\ LET l1 == add_log(logs, "Resolving hostname: ", host, "info")
       IN  \E e \in IF IdnaFails(host)
                    THEN {Exc("UnicodeError", FALSE, "none")}
                    ELSE {NoExc, Exc("gaierror", FALSE, "none")} :
            /\ calls' = Append(calls, "getaddrinfo")
            /\ IF e = NoExc
               THEN /\ logs' = add_log(l1, "DNS resolved to: ", <<>>, "info")
                    /\ pc' = "tcp"
                    /\ exc' = exc
               ELSE IF FirstHandler(DnsHandlers, e.cls) # 0
               THEN /\ logs' = add_log(l1, "ERROR: DNS resolution failed - ", <<>>, "error")
                    /\ pc' = "tcp"
                    /\ exc' = exc
               ELSE /\ logs' = l1
                    /\ pc' = "fault"
                    /\ exc' = e
    /\ Config /\ Form /\ NoSession

\* except socket.timeout / except socket.error
TcpHandlers == <<"timeout", "OSError">>

\* Lines 246-255: the TCP probe.
Tcp ==
    /\ pc = "tcp"
    /\ LET target == host \o <<":">> \o Str(port)
           l1 == add_log(logs, "Testing TCP connectivity to ", target, "info")
       IN  \E e \in {NoExc, Exc("timeout", FALSE, "none"), Exc("OSError", FALSE, "none")} :
            LET h == FirstHandler(TcpHandlers, e.cls)
            IN  /\ calls' = Append(calls, "create_connection")
                /\ IF e = NoExc
                   THEN /\ logs' = add_log(l1, "TCP connection successful to ", target, "info")
                        /\ pc' = "init"
                        /\ exc' = exc
                   ELSE IF h = 1
                   THEN /\ logs' = add_log(l1, "ERROR: TCP connection timed out to ", target, "error")
                        /\ pc' = "init"
                        /\ exc' = exc
                   ELSE IF h = 2
                   THEN /\ logs' = add_log(l1, "ERROR: TCP connection failed - ", <<>>, "error")
                        /\ pc' = "init"
                        /\ exc' = exc
                   ELSE /\ logs' = l1
                        /\ pc' = "fault"
                        /\ exc' = e
    /\ Config /\ Form /\ NoSession

\* What the try block leaves alone
Request == Config /\ Form /\ UNCHANGED response

\* ldap.initialize raises on a URI it cannot parse
InitializeFailures == {Exc("LDAPError", FALSE, "str")}

\* Lines 257-265: connection = None, the URI is built and the session
\* object created.
Initialize ==
    /\ pc = "init"
    /\ LET uri == LdapUri(use_ssl, host, port)
           l1 == add_log(logs, "Initializing LDAP connection: ", uri, "info")
       IN  /\ ldap_uri' = uri
           /\ calls' = Append(calls, "initialize")
           /\ \/ /\ connection' = "LDAPObject"
                 /\ logs' = add_log(l1, "LDAP connection initialized", <<>>, "info")
                 /\ exc' = exc
                 /\ pc' = "options"
              \/ \E e \in InitializeFailures :
                 /\ connection' = "None"
                 /\ logs' = l1
                 /\ exc' = e
                 /\ pc' = "except"
    /\ Request
    /\ UNCHANGED <<option, handled, bind_args>>

\* The connection options of lines 267-284, in order, with the entry each
\* one logs; the CA file is set only when one is configured.
ConnectionOptions ==
    <<[name |-> "OPT_PROTOCOL_VERSION", message |-> "Set protocol version: LDAPv3"],
      [name |-> "OPT_NETWORK_TIMEOUT", message |-> "Set network timeout: 10 seconds"],
      [name |-> "OPT_X_TLS_REQUIRE_CERT", message |-> "Connection-level OPT_X_TLS_REQUIRE_CERT: ALLOW"],
      [name |-> "OPT_X_TLS_CACERTFILE", message |-> "Connection-level OPT_X_TLS_CACERTFILE set"],
      [name |-> "OPT_X_TLS_NEWCTX", message |-> "TLS context reloaded with new options"]>>

\* if ca_cert_file: guards the fourth option
Applies(i) == ConnectionOptions[i].name = "OPT_X_TLS_CACERTFILE" => ca_cert_file # <<>>

\* python-ldap raises ValueError("option error") or an LDAPError from
\* set_option
OptionFailures == {Exc("ValueError", FALSE, "none"), Exc("LDAPError", FALSE, "dict")}

\* if not use_ssl: decides whether STARTTLS precedes the bind
AfterOptionsNever == "bind"

AfterOptions == IF ~use_ssl THEN "starttls" ELSE "bind"

\* Lines 267-284: one connection.set_option call and its entry.
SetOption ==
    /\ pc = "options"
    /\ LET last == option = Len(ConnectionOptions)
       IN  IF ~Applies(option)
           THEN /\ option' = option + 1
                /\ pc' = IF last THEN AfterOptions ELSE "options"
                /\ UNCHANGED <<logs, exc, calls>>
           ELSE /\ calls' = Append(calls, "set_option")
                /\ \/ /\ logs' = add_log(logs, ConnectionOptions[option].message, <<>>, "info")
                      /\ option' = option + 1
                      /\ pc' = IF last THEN AfterOptions ELSE "options"
                      /\ exc' = exc
                   \/ \E e \in OptionFailures :
                      /\ exc' = e
                      /\ pc' = "except"
                      /\ UNCHANGED <<logs, option>>
    /\ Request
    /\ UNCHANGED <<ldap_uri, connection, handled, bind_args>>

\* Lines 286-290: the STARTTLS upgrade of a plaintext session.
StartTls ==
    /\ pc = "starttls"
    /\ LET l1 == add_log(logs, "Starting TLS upgrade (STARTTLS)...", <<>>, "info")
       IN  /\ calls' = Append(calls, "start_tls_s")
           /\ \/ /\ logs' = add_log(l1, "STARTTLS completed successfully", <<>>, "success")
                 /\ exc' = exc
                 /\ pc' = "bind"
              \/ \E e \in LdapFailures :
                 /\ logs' = l1
                 /\ exc' = e
                 /\ pc' = "except"
    /\ Request
    /\ UNCHANGED <<ldap_uri, connection, option, handled, bind_args>>

\* What simple_bind_s can raise: the server's verdict, an LDAP failure, or
\* the socket errors the handlers of lines 319-323 expect.
BindFailures ==
    LdapFailures \cup {Exc("INVALID_CREDENTIALS", FALSE, "dict"),
                       Exc("timeout", FALSE, "none"), Exc("OSError", FALSE, "none")}

\* Lines 292-294: the simple bind.
Bind ==
    /\ pc = "bind"
    /\ LET l1 == add_log(logs, "Attempting LDAP bind for user: ", login_username, "info")
       IN  /\ calls' = Append(calls, "simple_bind_s")
           /\ bind_args' = <<login_username, password>>
           /\ \/ /\ logs' = add_log(l1, "SUCCESS: User authenticated successfully!", <<>>, "success")
                 /\ exc' = exc
                 /\ pc' = "finally"
              \/ \E e \in BindFailures :
                 /\ logs' = l1
                 /\ exc' = e
                 /\ pc' = "except"
    /\ Request
    /\ UNCHANGED <<ldap_uri, connection, option, handled>>

BindHandlersGenericFirst ==
    <<"LDAPError", "INVALID_CREDENTIALS", "SERVER_DOWN", "CONNECT_ERROR",
      "TIMEOUT", "timeout", "OSError">>

\* The except clauses of the try block, lines 296-323, in order
BindHandlers ==
    <<"INVALID_CREDENTIALS", "SERVER_DOWN", "CONNECT_ERROR", "TIMEOUT",
      "LDAPError", "timeout", "OSError">>

\* The entries the except clause for `clause` logs for exception e
HandlerLog(l, clause, e) ==
    CASE clause = "INVALID_CREDENTIALS" ->
           add_log(l, "ERROR: Invalid credentials - authentication failed", <<>>, "error")
      [] clause = "SERVER_DOWN" ->
           LET l2 == add_log(add_log(l, "ERROR: LDAP server is down or unreachable", <<>>, "error"),
                             "Details: ", <<>>, "error")
           IN  IF e.certificate
               THEN add_log(l2, "HINT: This may be a TLS/SSL certificate issue", <<>>, "error")
               ELSE l2
      [] clause = "CONNECT_ERROR" ->
           add_log(add_log(l, "ERROR: Could not connect to LDAP server", <<>>, "error"),
                   "Details: ", <<>>, "error")
      [] clause = "TIMEOUT" ->
           add_log(l, "ERROR: LDAP operation timed out", <<>>, "error")
      [] clause = "LDAPError" ->
           LET l1 == add_log(l, "LDAP ERROR: ", <<e.cls>>, "error")
           IN  IF e.args \in {"dict", "dict_info"}
               THEN LET l2 == add_log(l1, "Description: ", <<>>, "error")
                    IN  IF e.args = "dict_info"
                        THEN add_log(l2, "Info: ", <<>>, "error")
                        ELSE l2
               ELSE add_log(l1, "Error details: ", <<>>, "error")
      [] clause = "timeout" ->
           add_log(l, "ERROR: Connection timed out", <<>>, "error")
      [] clause = "OSError" ->
           add_log(add_log(l, "OS ERROR: ", <<>>, "error"), "Error number: ", <<>>, "error")

\* Lines 296-323: the raised exception (kept in exc) meets the except
\* clauses; one that none of them names stays pending through the finally
\* block.
Except ==
    /\ pc = "except"
    /\ LET h == FirstHandler(BindHandlers, exc.cls)
       IN  /\ handled' = (h # 0)
           /\ logs' = IF h = 0 THEN logs ELSE HandlerLog(logs, BindHandlers[h], exc)
    /\ pc' = "finally"
    /\ Request
    /\ UNCHANGED <<ldap_uri, connection, option, exc, calls, bind_args>>

\* unbind_s on a session that never connected or already failed
UnbindFailures == {Exc("LDAPError", FALSE, "dict")}

\* except Exception, line 329
CleanupHandlers == <<"Exception">>

ShouldUnbindOnSuccess == connection # "None" /\ exc = NoExc

\* if connection:
ShouldUnbind == connection # "None"

\* The entry of the finally block, lines 324-332; e is what unbind_s raised
Cleanup(l, e) ==
    IF ShouldUnbind
    THEN IF e = NoExc
         THEN add_log(l, "LDAP connection closed", <<>>, "info")
         ELSE add_log(l, "LDAP connection cleanup (no active connection)", <<>>, "info")
    ELSE add_log(l, "No LDAP connection was established", <<>>, "info")

\* Lines 324-332: the session is unbound if there is one; then the handler
\* goes on to render, or a pending exception leaves it.
Finally ==
    /\ pc = "finally"
    /\ IF ShouldUnbind
       THEN /\ calls' = Append(calls, "unbind_s")
            /\ \E e \in {NoExc} \cup UnbindFailures :
                 /\ e # NoExc => FirstHandler(CleanupHandlers, e.cls) # 0
                 /\ logs' = Cleanup(logs, e)
       ELSE /\ calls' = calls
            /\ logs' = Cleanup(logs, NoExc)
    /\ pc' = IF exc = NoExc \/ handled THEN "render" ELSE "fault"
    /\ Request
    /\ UNCHANGED <<ldap_uri, connection, option, exc, handled, bind_args>>

\* Lines 334-338: the page with the whole log is returned.
Render ==
    /\ pc = "render"
    /\ response' = logs
    /\ pc' = "done"
    /\ Config /\ Form
    /\ UNCHANGED <<logs, ldap_uri, connection, option, exc, handled, calls, bind_args>>

Next ==
    \/ Start
    \/ Validate
    \/ CaCheck
    \/ Dns
    \/ Tcp
    \/ Initialize
    \/ SetOption
    \/ StartTls
    \/ Bind
    \/ Except
    \/ Finally
    \/ Render

Spec == Init /\ [][Next]_vars

\* ------------------------------------------------------------------------
\* Properties
\* ------------------------------------------------------------------------

Count(l, messages) == Cardinality({i \in DOMAIN l : l[i].message \in messages})

Has(l, message) == \E i \in DOMAIN l : l[i].message = message

Times(op) == Cardinality({i \in DOMAIN calls : calls[i] = op})

Called(op) == \E i \in DOMAIN calls : calls[i] = op

\* The run is over: the page was returned, or an exception left the handler
Terminal == pc \in {"done", "fault"}

\* A POST whose host, username and password are all present
PassedValidation ==
    /\ method = "POST"
    /\ pc \notin {"start", "validate"}
    /\ host # <<>> /\ username # <<>> /\ password # <<>>

CleanupMessages ==
    {"LDAP connection closed", "LDAP connection cleanup (no active connection)",
     "No LDAP connection was established"}

\* Entries written before and by config validation
PreambleMessages ==
    {"LDAP Test Started", "ERROR: Invalid LDAP port: ", "AD Config loaded - Host: ",
     "AD Config - Domain: ", "AD Config - Port: ", "CA cert file configured: ",
     "Attempting to authenticate user: ", "ERROR: LDAP host missing in .env",
     "ERROR: Username or password missing"}

InvalidCredentialsMessage == "ERROR: Invalid credentials - authentication failed"

ServerDownMessage == "ERROR: LDAP server is down or unreachable"

SuccessMessage == "SUCCESS: User authenticated successfully!"

\* First entries of the except clauses other than invalid credentials
OtherFailureMessages ==
    {ServerDownMessage, "ERROR: Could not connect to LDAP server",
     "ERROR: LDAP operation timed out", "LDAP ERROR: ",
     "ERROR: Connection timed out", "OS ERROR: "}

CaProblemMessages ==
    {"ERROR: CA certificate file not found: ",
     "ERROR: Cannot read CA certificate file (permission denied): ",
     "WARNING: CA certificate may not be in PEM format"}

\* C1: every diagnostic run (POST), config-invalid ones included, ends with
\* a log holding exactly one cleanup entry.
C1_CleanupExactlyOnce ==
    (method = "POST" /\ Terminal) => Count(logs, CleanupMessages) = 1

\* No step after validation ran: no call was made and the log holds only
\* the entries that precede the steps.
NoStepRan ==
    /\ calls = <<>>
    /\ \A i \in DOMAIN logs : logs[i].message \in PreambleMessages
    /\ pc \in {"render", "done"}

\* C2: a run with an empty host logs exactly one missing-host error, a run
\* with a host but an empty username or password exactly one
\* missing-credentials error, and in both no later step runs or logs.
C2_ConfigShortCircuit ==
    (method = "POST" /\ pc \notin {"start", "validate"}) =>
        /\ host = <<>> =>
            /\ Count(logs, {"ERROR: LDAP host missing in .env"}) = 1
            /\ Count(logs, {"ERROR: Username or password missing"}) = 0
            /\ logs[Len(logs)].level = "error"
            /\ NoStepRan
        /\ (host # <<>> /\ (username = <<>> \/ password = <<>>)) =>
            /\ Count(logs, {"ERROR: Username or password missing"}) = 1
            /\ Count(logs, {"ERROR: LDAP host missing in .env"}) = 0
            /\ logs[Len(logs)].level = "error"
            /\ NoStepRan

C2_Witness ==
    /\ pc = "done" /\ method = "POST"
    /\ host # <<>> /\ username # <<>> /\ password = <<>>
    /\ Has(response, "ERROR: Username or password missing")

\* C3: no failure of a step leaves ldap_test uncaught; every run reaches the
\* return of the log.
C3_NoUncaughtFault == pc # "fault"

\* C4: the identity bound is the username as typed when it holds '@' or no
\* domain is configured, username@domain otherwise, and it is the identity
\* the log announced.
C4_IdentityResolution ==
    Called("simple_bind_s") =>
        /\ (Contains(username, "@") \/ domain = <<>>) => bind_args[1] = username
        /\ ~(Contains(username, "@") \/ domain = <<>>) =>
               bind_args[1] = username \o <<"@">> \o domain
        /\ Count(logs, {"Attempting authentication with: "}) = 1
        /\ \A i \in DOMAIN logs :
               logs[i].message = "Attempting authentication with: " =>
                   logs[i].arg = bind_args[1]

C4_Witness ==
    /\ Called("simple_bind_s")
    /\ username = <<"a">> /\ domain = <<"d">>
    /\ bind_args[1] = <<"a", "@", "d">>

\* C5: port 636 selects implicit TLS (ldaps:// and no STARTTLS); any other
\* port, 389 included when the configured port is absent or no integer,
\* selects ldap:// with STARTTLS attempted once the session is set up.
C5_TlsModeSelection ==
    PassedValidation =>
        /\ use_ssl = (port = 636)
        /\ (port_raw = <<>> \/ ~IsInt(port_raw)) => port = 389
        /\ Called("initialize") =>
               ldap_uri[1] = IF port = 636 THEN "ldaps" ELSE "ldap"
        /\ Called("start_tls_s") => (port # 636 /\ connection # "None")
        /\ (port # 636 /\ Called("simple_bind_s")) => Called("start_tls_s")
        /\ (port # 636 /\ Has(logs, "TLS context reloaded with new options")
              /\ pc # "starttls") => Called("start_tls_s")

C5_Witness ==
    /\ pc = "done" /\ PassedValidation
    /\ port_raw # <<>> /\ ~IsInt(port_raw)
    /\ ldap_uri[1] = "ldap"
    /\ Called("start_tls_s")

\* C6: whatever DNS resolution and the TCP probe do, a run that reached
\* them goes on to attempt LDAP session establishment.
C6_AdvisoryChecksContinue ==
    (Terminal /\ Called("getaddrinfo")) => Called("initialize")

\* C7: an invalid-credentials failure logs its own entry and none of the
\* other failure entries, a server-down failure logs its own and not the
\* invalid-credentials one, and no log holds a failure entry and the
\* success entry.
C7_BindFailureClassification ==
    /\ (pc \in {"finally", "render", "done", "fault"} /\ exc.cls = "INVALID_CREDENTIALS") =>
           /\ Count(logs, {InvalidCredentialsMessage}) = 1
           /\ Count(logs, OtherFailureMessages) = 0
           /\ \A i \in DOMAIN logs :
                  logs[i].message = InvalidCredentialsMessage => logs[i].level = "error"
    /\ (pc \in {"finally", "render", "done", "fault"} /\ exc.cls = "SERVER_DOWN") =>
           /\ Count(logs, {ServerDownMessage}) = 1
           /\ Count(logs, {InvalidCredentialsMessage}) = 0
    /\ ~(Has(logs, SuccessMessage)
         /\ Count(logs, OtherFailureMessages \cup {InvalidCredentialsMessage}) > 0)

C7_Witness ==
    /\ pc = "done"
    /\ exc.cls = "INVALID_CREDENTIALS"
    /\ Has(response, InvalidCredentialsMessage)

\* C8: a session that ldap.initialize returned is unbound exactly once, as
\* the last call on it, whatever failed later; without one unbind_s is
\* never called.
C8_ReleasedExactlyOnce ==
    /\ Times("unbind_s") <= 1
    /\ Called("unbind_s") => (connection # "None" /\ calls[Len(calls)] = "unbind_s")
    /\ pc \in {"render", "done", "fault"} =>
           Times("unbind_s") = IF connection # "None" THEN 1 ELSE 0

C8_Witness ==
    /\ pc = "fault"
    /\ connection # "None"
    /\ exc.cls = "ValueError"
    /\ Times("unbind_s") = 1

\* C9: after a CA file that is missing, unreadable or without the PEM
\* marker, the run goes on to DNS resolution, the TCP probe and session
\* establishment.
C9_CaCheckNeverAborts ==
    (Terminal /\ Count(logs, CaProblemMessages) > 0) =>
        /\ Count(logs, CaProblemMessages) = 1
        /\ Called("getaddrinfo")
        /\ Called("create_connection")
        /\ Called("initialize")

\* Position of each step in the fixed order
Rank ==
    [op \in {"getaddrinfo", "create_connection", "initialize", "start_tls_s",
             "simple_bind_s", "unbind_s"} |->
        CASE op = "getaddrinfo" -> 1 [] op = "create_connection" -> 2
          [] op = "initialize" -> 3 [] op = "start_tls_s" -> 4
          [] op = "simple_bind_s" -> 5 [] op = "unbind_s" -> 6]

\* C10: the steps run at most once, in the order DNS, TCP, initialise,
\* STARTTLS, bind, cleanup; the bind needs the session and, on a port other
\* than 636, a completed STARTTLS; a failed initialisation or STARTTLS is
\* followed by no bind, success entry or invalid-credentials entry.
C10_StepOrderNoRetry ==
    /\ \A i, j \in DOMAIN calls :
           (i < j /\ calls[i] \in DOMAIN Rank /\ calls[j] \in DOMAIN Rank) =>
               Rank[calls[i]] < Rank[calls[j]]
    /\ Called("simple_bind_s") =>
           /\ Called("initialize") /\ connection # "None"
           /\ port # 636 => Has(logs, "STARTTLS completed successfully")
    /\ ( \/ (Called("initialize") /\ connection = "None")
         \/ (Called("start_tls_s") /\ ~Has(logs, "STARTTLS completed successfully")) ) =>
           /\ ~Called("simple_bind_s")
           /\ ~Has(logs, SuccessMessage)
           /\ ~Has(logs, InvalidCredentialsMessage)
           /\ pc \in {"render", "done", "fault"} => Count(logs, CleanupMessages) = 1

C10_Witness ==
    /\ pc = "done"
    /\ Called("start_tls_s")
    /\ ~Has(response, "STARTTLS completed successfully")
    /\ calls[Len(calls)] = "unbind_s"

====
